---- MODULE Spec2Model ----
(***************************************************************************)
(* Momentum-contrast training (model/model.py: MoCov1, MoCov2) and the     *)
(* linear-evaluation script (linear.py) as state machines.                 *)
(*                                                                         *)
(* MoCov1 and MoCov2 have textually identical __init__ tails,              *)
(* _momentum_update_key_encoder, _dequeue_and_enqueue, shuffle helpers,    *)
(* contrastive_loss and forward; one set of definitions models both.       *)
(***************************************************************************)
EXTENDS Integers, Sequences, FiniteSets, TLC

VARIABLES
    K,                \* self.K, queue capacity
    m,                \* self.m, momentum coefficient (a float, see below)
    param_q,          \* encoder_q.parameters(): index -> float
    param_k,          \* encoder_k.parameters(): index -> float
    requires_grad_k,  \* param_k.requires_grad, per parameter
    queue,            \* self.queue: column 0..K-1 -> embedding
    queue_ptr,        \* self.queue_ptr[0]
    pc,               \* position inside / between calls on the MoCo object
    err,              \* the exception that ended the call, or "none"
    step,             \* number of calls started so far (names the batches)
    N,                \* per-view batch size of the call in progress
    loss_12,          \* what contrastive_loss(im1, im2) read and returned
    loss_21,          \* what contrastive_loss(im2, im1) read and returned
    hist,             \* completed enqueues: [id, size, ptr before the write]
    bn_splits,        \* num_splits of the encoders' SplitBatchNorm layers
    shuffle,          \* locals of the contrastive_loss call that ran last
    lin_pc,           \* position of linear.py's __main__
    args,             \* parsed command line and checkpoint file of linear.py
    net,              \* the Net under construction / constructed
    epoch,            \* loop variable of the epoch loop
    results,          \* rows appended to the results dict
    csv,              \* number of rows of the last table written, 0 if none
    best_acc,         \* best_acc
    saved,            \* number of times linear_model.pth was written
    lin_err           \* the exception that ended linear.py, or "none"

vars == <<K, m, param_q, param_k, requires_grad_k, queue, queue_ptr, pc, err,
          step, N, loss_12, loss_21, hist, bn_splits, shuffle,
          lin_pc, args, net, epoch, results, csv, best_acc, saved, lin_err>>

mocoVars == <<K, m, param_q, param_k, requires_grad_k, queue, queue_ptr, pc,
              err, step, N, loss_12, loss_21, hist, bn_splits, shuffle>>

linVars == <<lin_pc, args, net, epoch, results, csv, best_acc, saved, lin_err>>

(***************************************************************************)
(* Bounds of the model.                                                    *)
(***************************************************************************)
Precision == 2    \* significand bits of the model's floating-point format
FracBits == 3     \* the smallest step of the format is 2^-FracBits
MaxParam == 8     \* parameters are drawn with magnitude <= MaxParam steps
NumParams == 2    \* parameter tensors per encoder (each one element)
MaxK == 8         \* largest queue capacity constructed
MaxN == 3         \* largest per-view batch size
MaxSteps == 2     \* forward calls per behaviour
MaxCalls == 8     \* direct _dequeue_and_enqueue calls per behaviour
MaxEpochs == 3    \* largest --epochs
MaxSplits == 2    \* largest bn_splits constructed

(***************************************************************************)
(* Floating-point arithmetic of the parameter tensors.  A float is an      *)
(* integer count of steps of 2^-FracBits whose magnitude is mant * 2^e     *)
(* with mant < 2^Precision, e >= 0: a binary format with round-to-nearest- *)
(* even and gradual underflow, narrowed from float32's 24 bits.            *)
(***************************************************************************)
Unit == 2^FracBits

Abs(x) == IF x < 0 THEN -x ELSE x

Max(a, b) == IF a >= b THEN a ELSE b

RECURSIVE Quantum(_, _, _)
\* spacing of the floats around the rational n/d (n >= 0, d > 0)
Quantum(n, d, q) ==
    IF n < d * q * (2^Precision) THEN q ELSE Quantum(n, d, 2 * q)

\* n/d rounded to the nearest float, ties to even significand
RoundMag(n, d) ==
    LET qt == Quantum(n, d, 1)
        den == d * qt
        fl == n \div den
        r == n % den
        up == IF 2 * r > den \/ (2 * r = den /\ fl % 2 = 1) THEN fl + 1 ELSE fl
    IN  up * qt

Round(n, d) == IF n >= 0 THEN RoundMag(n, d) ELSE -RoundMag(-n, d)

IsFloat(v) == Round(v, 1) = v

fmul(a, b) == Round(a * b, Unit)

fadd(a, b) == Round(a + b, 1)

\* (1. - self.m), converted to the tensor's precision
OneMinus(mm) == Round(Unit - mm, 1)

ParamVals == {v \in (-MaxParam)..MaxParam : IsFloat(v)}

\* momentum coefficients in (0,1)
MVals == {v \in 1..(Unit - 1) : IsFloat(v)}

ParamIdx == 1..NumParams

\* the blend with the two weights exchanged
momentum_blend_swapped(pq, pk, mm) ==
    [i \in ParamIdx |-> fadd(fmul(pk[i], OneMinus(mm)), fmul(pq[i], mm))]

\* for param_q, param_k in zip(...): param_k.data = param_k.data * m + param_q.data * (1. - m)
momentum_blend(pq, pk, mm) ==
    [i \in ParamIdx |-> fadd(fmul(pk[i], mm), fmul(pq[i], OneMinus(mm)))]

(***************************************************************************)
(* Embeddings.  An embedding is named by the encoder that produced it and  *)
(* the image it was produced from; an image is <<batch id, view, index>>.  *)
(* The queue's initial columns (torch.randn, normalised) come from no      *)
(* image: batch id 0.                                                      *)
(***************************************************************************)
Image(id, view, i) == <<id, view, i>>

Embedding(enc, img) == [enc |-> enc, img |-> img]

\* a batch of n images of one view of training step id
Batch(id, view, n) == [i \in 1..n |-> Image(id, view, i)]

\* self.queue = normalize(torch.randn(feature_dim, K))
InitialQueue(cap) == [c \in 0..(cap - 1) |-> Embedding("init", Image(0, 0, c))]

NoLoss == [q |-> <<>>, k |-> <<>>, l_pos |-> <<>>, l_neg |-> <<>>, kparams |-> <<>>]

\* the enqueue without the line that moves the pointer
dequeue_and_enqueue_stuck(cap, qu, ptr, keys) ==
    LET batch_size == Len(keys)
    IN  IF cap % batch_size # 0
        THEN [queue |-> qu, ptr |-> ptr, err |-> "AssertionError"]
        ELSE IF ptr + batch_size > cap
        THEN [queue |-> qu, ptr |-> ptr, err |-> "RuntimeError"]
        ELSE [queue |-> [c \in 0..(cap - 1) |->
                            IF ptr <= c /\ c < ptr + batch_size
                            THEN keys[c - ptr + 1] ELSE qu[c]],
              ptr |-> ptr,
              err |-> "none"]

(***************************************************************************)
(* _dequeue_and_enqueue(keys): the outcome of one call on a queue of       *)
(* capacity cap with pointer ptr.  The slice ptr:ptr+batch_size is clipped *)
(* at cap by the tensor library; copying batch_size columns into a shorter *)
(* slice raises RuntimeError before anything is written.                   *)
(***************************************************************************)
dequeue_and_enqueue(cap, qu, ptr, keys) ==
    LET batch_size == Len(keys)
    IN  IF cap % batch_size # 0
        THEN [queue |-> qu, ptr |-> ptr, err |-> "AssertionError"]
        ELSE IF ptr + batch_size > cap
        THEN [queue |-> qu, ptr |-> ptr, err |-> "RuntimeError"]
        ELSE [queue |-> [c \in 0..(cap - 1) |->
                            IF ptr <= c /\ c < ptr + batch_size
                            THEN keys[c - ptr + 1] ELSE qu[c]],
              ptr |-> (ptr + batch_size) % cap,
              err |-> "none"]

(***************************************************************************)
(* Batch shuffle.  An index tensor is a sequence over 1..n of positions    *)
(* 1..n (the source's 0..n-1, shifted by one).                             *)
(***************************************************************************)
\* torch.randperm(n): every permutation of the positions
randperm(n) == {p \in [1..n -> 1..n] : \A i, j \in 1..n : p[i] = p[j] => i = j}

\* torch.argsort(s): the positions of s in ascending order of value
argsort(s) ==
    [j \in 1..Len(s) |->
        CHOOSE p \in 1..Len(s) :
            Cardinality({r \in 1..Len(s) : s[r] < s[p]}) = j - 1]

\* x[idx]
index_select(x, idx) == [j \in 1..Len(idx) |-> x[idx[j]]]

\* the shuffle returning the shuffle index itself as the index for restoring
batch_shuffle_same_index(x, idx_shuffle) ==
    [x |-> index_select(x, idx_shuffle), idx_unshuffle |-> idx_shuffle]

\* idx_unshuffle = torch.argsort(idx_shuffle); return x[idx_shuffle], idx_unshuffle
batch_shuffle_single_gpu(x, idx_shuffle) ==
    [x |-> index_select(x, idx_shuffle), idx_unshuffle |-> argsort(idx_shuffle)]

\* return x[idx_unshuffle]
batch_unshuffle_single_gpu(x, idx_unshuffle) == index_select(x, idx_unshuffle)

\* an encoder applied to a batch, row by row
encode(enc, x) == [j \in 1..Len(x) |-> Embedding(enc, x[j])]

\* SplitBatchNorm.forward: input.view(-1, C * num_splits, H, W) needs the
\* batch to split evenly; plain BatchNorm2d is used when bn_splits = 1
EncoderAccepts(n) == bn_splits > 1 => n % bn_splits = 0

NoShuffle == [idx_shuffle |-> <<>>, x |-> <<>>, idx_unshuffle |-> <<>>]

\* contrastive_loss(im_q, im_k) with the permutation randperm drew
contrastive_loss(im_q, im_k, idx_shuffle) ==
    LET q == encode("q", im_q)
        sh == batch_shuffle_single_gpu(im_k, idx_shuffle)
        k_ == encode("k", sh.x)
        k == batch_unshuffle_single_gpu(k_, sh.idx_unshuffle)
    IN  [q |-> q, k |-> k,
         l_pos |-> [i \in 1..Len(q) |-> <<q[i], k[i]>>],
         l_neg |-> queue,
         kparams |-> param_k]

(***************************************************************************)
(* The MoCo object: construction and the training step.                    *)
(***************************************************************************)
\* values the library's initialisers give the query parameters
SeedVals == {3, MaxParam}

\* momentum coefficients the training specification constructs with
SeedM == {Unit \div 2, Unit - Unit \div 4}

\* learning-rate-scaled gradients the optimizer applies, in steps
Grads == {-2, 2}

LinIdle ==
    /\ lin_pc = "off"
    /\ args = [model_name |-> "mocov1", epochs |-> 0, ckpt |-> {}]
    /\ net = [fc_in |-> 0, loaded |-> "no"]
    /\ epoch = 0
    /\ results = <<>>
    /\ csv = 0
    /\ best_acc = 0
    /\ saved = 0
    /\ lin_err = "none"

\* the key parameters left trainable
key_requires_grad_kept(i) == TRUE

\* param_k.requires_grad = False  # not update by gradient
key_requires_grad(i) == FALSE

\* MoCov1.__init__(K=cap, m=mm, bn_splits=splits) with query parameters pq
Construct(cap, mm, splits, pq) ==
    /\ K = cap
    /\ m = mm
    /\ bn_splits = splits
    /\ param_q = pq
    /\ param_k = pq
    /\ requires_grad_k = [i \in ParamIdx |-> key_requires_grad(i)]
    /\ queue = InitialQueue(cap)
    /\ queue_ptr = 0
    /\ pc = "idle"
    /\ err = "none"
    /\ step = 0
    /\ N = 0
    /\ loss_12 = NoLoss
    /\ loss_21 = NoLoss
    /\ hist = <<>>
    /\ shuffle = NoShuffle

Init ==
    /\ \E cap \in 1..MaxK, mm \in SeedM, splits \in 1..MaxSplits,
          pq \in [ParamIdx -> SeedVals] : Construct(cap, mm, splits, pq)
    /\ LinIdle

\* forward, lines 146-147: the call starts with the momentum update
forward_momentum_update(n) ==
    /\ pc = "idle"
    /\ step < MaxSteps
    /\ step' = step + 1
    /\ N' = n
    /\ param_k' = momentum_blend(param_q, param_k, m)
    /\ loss_12' = NoLoss
    /\ loss_21' = NoLoss
    /\ pc' = "m_done"
    /\ UNCHANGED <<K, m, param_q, requires_grad_k, queue, queue_ptr, err, hist,
                   bn_splits, shuffle>>
    /\ UNCHANGED linVars

\* forward, line 149: loss_12, q1, k2 = self.contrastive_loss(im1, im2)
forward_loss_12 ==
    /\ pc = "m_done"
    /\ IF ~EncoderAccepts(N)
       THEN /\ pc' = "failed"
            /\ err' = "RuntimeError"
            /\ UNCHANGED <<loss_12, shuffle>>
       ELSE \E idx \in randperm(N) :
            /\ loss_12' = contrastive_loss(Batch(step, 1, N), Batch(step, 2, N), idx)
            /\ shuffle' = [idx_shuffle |-> idx]
                          @@ batch_shuffle_single_gpu(Batch(step, 2, N), idx)
            /\ pc' = "l12_done"
            /\ UNCHANGED err
    /\ UNCHANGED <<K, m, param_q, param_k, requires_grad_k, queue, queue_ptr,
                   step, N, loss_21, hist, bn_splits>>
    /\ UNCHANGED linVars

\* the second loss computation preceded by a momentum update of its own
forward_loss_21_updating ==
    /\ pc = "l12_done"
    /\ param_k' = momentum_blend(param_q, param_k, m)
    /\ \E idx \in randperm(N) :
            /\ loss_21' = [contrastive_loss(Batch(step, 2, N), Batch(step, 1, N), idx)
                              EXCEPT !.kparams = param_k']
            /\ shuffle' = [idx_shuffle |-> idx]
                          @@ batch_shuffle_single_gpu(Batch(step, 1, N), idx)
    /\ pc' = "l21_done"
    /\ UNCHANGED <<K, m, param_q, requires_grad_k, queue, queue_ptr,
                   err, step, N, loss_12, hist, bn_splits>>
    /\ UNCHANGED linVars

\* forward, line 150: loss_21, q2, k1 = self.contrastive_loss(im2, im1)
forward_loss_21 ==
    /\ pc = "l12_done"
    /\ \E idx \in randperm(N) :
            /\ loss_21' = contrastive_loss(Batch(step, 2, N), Batch(step, 1, N), idx)
            /\ shuffle' = [idx_shuffle |-> idx]
                          @@ batch_shuffle_single_gpu(Batch(step, 1, N), idx)
    /\ pc' = "l21_done"
    /\ UNCHANGED <<K, m, param_q, param_k, requires_grad_k, queue, queue_ptr,
                   err, step, N, loss_12, hist, bn_splits>>
    /\ UNCHANGED linVars

\* the concatenation in the order the losses were computed, k2 then k1
cat_keys_swapped(l12, l21) == l12.k \o l21.k

\* k = torch.cat([k1, k2], dim=0), k1 from loss_21 and k2 from loss_12
cat_keys(l12, l21) == l21.k \o l12.k

\* forward, lines 152-156: self._dequeue_and_enqueue(k); return loss
forward_enqueue ==
    /\ pc = "l21_done"
    /\ LET r == dequeue_and_enqueue(K, queue, queue_ptr, cat_keys(loss_12, loss_21))
       IN  /\ queue' = r.queue
           /\ queue_ptr' = r.ptr
           /\ err' = r.err
           /\ pc' = IF r.err = "none" THEN "returned" ELSE "failed"
           /\ hist' = IF r.err = "none"
                      THEN Append(hist, [id |-> step, size |-> 2 * N, ptr |-> queue_ptr])
                      ELSE hist
    /\ shuffle' = NoShuffle
    /\ UNCHANGED <<K, m, param_q, param_k, requires_grad_k, step, N, loss_12,
                   loss_21, bn_splits>>
    /\ UNCHANGED linVars

\* the training loop's loss.backward(); optimizer.step(): parameters that
\* require a gradient move by the scaled gradient g, the others are skipped
optimizer_step(g) ==
    /\ pc = "returned"
    /\ \A i \in ParamIdx : fadd(param_q[i], -g) \in ParamVals
    /\ param_q' = [i \in ParamIdx |-> fadd(param_q[i], -g)]
    /\ param_k' = [i \in ParamIdx |->
                      IF requires_grad_k[i] THEN fadd(param_k[i], -g) ELSE param_k[i]]
    /\ pc' = "idle"
    /\ UNCHANGED <<K, m, requires_grad_k, queue, queue_ptr, err, step, N,
                   loss_12, loss_21, hist, bn_splits, shuffle>>
    /\ UNCHANGED linVars

Next ==
    \/ \E n \in 1..MaxN : forward_momentum_update(n)
    \/ forward_loss_12
    \/ forward_loss_21
    \/ forward_enqueue
    \/ \E g \in Grads : optimizer_step(g)

Spec == Init /\ [][Next]_vars

(***************************************************************************)
(* _dequeue_and_enqueue called on its own, with batches of any length.     *)
(***************************************************************************)
InitQueue ==
    /\ \E cap \in 1..MaxK : Construct(cap, Unit \div 2, 1, [i \in ParamIdx |-> Unit])
    /\ LinIdle

\* self._dequeue_and_enqueue(keys) with len(keys) = b, a batch not seen before
enqueue_call(b) ==
    /\ pc = "idle"
    /\ step < MaxCalls
    /\ step' = step + 1
    /\ LET keys == encode("k", Batch(step + 1, 0, b))
           r == dequeue_and_enqueue(K, queue, queue_ptr, keys)
       IN  /\ queue' = r.queue
           /\ queue_ptr' = r.ptr
           /\ err' = r.err
           /\ pc' = IF r.err = "none" THEN "idle" ELSE "failed"
           /\ hist' = IF r.err = "none"
                      THEN Append(hist, [id |-> step + 1, size |-> b, ptr |-> queue_ptr])
                      ELSE hist
    /\ N' = b
    /\ UNCHANGED <<K, m, param_q, param_k, requires_grad_k, loss_12, loss_21,
                   bn_splits, shuffle>>
    /\ UNCHANGED linVars

NextQueue == \E b \in 1..MaxK : enqueue_call(b)

SpecQueue == InitQueue /\ [][NextQueue]_vars

(***************************************************************************)
(* _momentum_update_key_encoder called on its own, from any pair of        *)
(* parameter values training can have produced.                            *)
(***************************************************************************)
\* parameter values after training: the first tensor takes every value, the
\* others a few that tell the tensors apart
TrainedParams ==
    {p \in [ParamIdx -> ParamVals] : \A i \in ParamIdx \ {1} : p[i] \in {0} \cup SeedVals}

\* query parameters after gradient steps the key encoder has not followed
\* one for one: any pair of values
InitMomentumTrained ==
    /\ \E mm \in MVals, pq \in TrainedParams, pk \in TrainedParams :
          /\ K = MaxK
          /\ m = mm
          /\ bn_splits = 1
          /\ param_q = pq
          /\ param_k = pk
    /\ requires_grad_k = [i \in ParamIdx |-> key_requires_grad(i)]
    /\ queue = InitialQueue(MaxK)
    /\ queue_ptr = 0
    /\ pc = "idle"
    /\ err = "none"
    /\ step = 0
    /\ N = 0
    /\ loss_12 = NoLoss
    /\ loss_21 = NoLoss
    /\ hist = <<>>
    /\ shuffle = NoShuffle
    /\ LinIdle

\* self._momentum_update_key_encoder()
momentum_call ==
    /\ pc = "idle"
    /\ param_k' = momentum_blend(param_q, param_k, m)
    /\ pc' = "m_called"
    /\ UNCHANGED <<K, m, param_q, requires_grad_k, queue, queue_ptr, err, step,
                   N, loss_12, loss_21, hist, bn_splits, shuffle>>
    /\ UNCHANGED linVars

NextMomentum == momentum_call

SpecMomentum == InitMomentumTrained /\ [][NextMomentum]_vars

(***************************************************************************)
(* linear.py: Net construction and the epoch loop of __main__.             *)
(***************************************************************************)
Tags == {"mocov1", "mocov2", "simclrv1", "simclrv2"}

\* the widths with the simclrv2 head bound to the backbone's 2048 features
FeatureWidth_backbone(tag) ==
    CASE tag = "mocov1" -> 512
      [] tag = "mocov2" -> 512
      [] tag = "simclrv1" -> 2048
      [] tag = "simclrv2" -> 2048

\* in_features of self.fc in each branch of Net.__init__
FeatureWidth(tag) ==
    CASE tag = "mocov1" -> 512
      [] tag = "mocov2" -> 512
      [] tag = "simclrv1" -> 2048
      [] tag = "simclrv2" -> 1024

\* the if/elif chain of Net.__init__: a branch is taken, or assert(False)
Recognized(tag) == tag \in Tags

\* names a checkpoint's state_dict can hold, and the names Net registers
CkptKeys == {"f", "fc", "encoder_q.g"}

NetKeys == {"f", "fc"}

\* load_state_dict(state_dict, strict): the names copied, or a RuntimeError
\* when strict and the names differ from the module's
load_state_dict(own, given, strict) ==
    IF strict /\ given # own
    THEN [err |-> "RuntimeError", copied |-> {}, mode |-> "no"]
    ELSE [err |-> "none", copied |-> own \cap given,
          mode |-> IF strict THEN "strict" ELSE "non_strict"]

\* strict=False in Net.__init__
LoadStrict == FALSE

\* positional parameters of def train_val(net, data_loader, train_optimizer)
TrainValParams == 3

\* arguments of train_val(model, train_loader, optimizer, scheduler)
TrainCallArgs == 4

\* arguments of train_val(model, test_loader, None)
TestCallArgs == 3

\* a call binds when it passes exactly the positional parameters (train_val
\* has no defaults, *args or **kwargs); otherwise the call raises TypeError
CallBinds(nargs, nparams) == nargs = nparams

\* test acc@1 values an epoch can measure
Accs == {10, 50}

InitLinear ==
    /\ \E mm \in {Unit \div 2} :
          Construct(1, mm, 1, [i \in ParamIdx |-> Unit])
    /\ lin_pc = "start"
    /\ args \in [model_name : Tags \cup {"resnet"},
                 epochs : 0..MaxEpochs,
                 ckpt : {{"missing"}} \cup SUBSET CkptKeys]
    /\ net = [fc_in |-> 0, loaded |-> "no"]
    /\ epoch = 0
    /\ results = <<>>
    /\ csv = 0
    /\ best_acc = 0
    /\ saved = 0
    /\ lin_err = "none"

\* model = Net(args.model_name, ...): Net.__init__
net_init ==
    /\ lin_pc = "start"
    /\ IF ~Recognized(args.model_name)
       THEN /\ lin_pc' = "failed"
            /\ lin_err' = "AssertionError"
            /\ UNCHANGED net
       ELSE IF args.ckpt = {"missing"}
       THEN /\ lin_pc' = "failed"
            /\ lin_err' = "FileNotFoundError"
            /\ net' = [fc_in |-> FeatureWidth(args.model_name), loaded |-> "no"]
       ELSE LET r == load_state_dict(NetKeys, args.ckpt, LoadStrict)
            IN  /\ lin_pc' = IF r.err = "none" THEN "constructed" ELSE "failed"
                /\ lin_err' = r.err
                /\ net' = [fc_in |-> FeatureWidth(args.model_name), loaded |-> r.mode]
    /\ UNCHANGED <<args, epoch, results, csv, best_acc, saved>>
    /\ UNCHANGED mocoVars

\* one iteration of for epoch in range(1, epochs + 1), or leaving the loop
epoch_body ==
    /\ lin_pc = "constructed"
    /\ IF epoch >= args.epochs
       THEN /\ lin_pc' = "done"
            /\ UNCHANGED <<epoch, results, csv, best_acc, saved, lin_err>>
       ELSE /\ epoch' = epoch + 1
            /\ IF ~CallBinds(TrainCallArgs, TrainValParams)
                  \/ ~CallBinds(TestCallArgs, TrainValParams)
               THEN /\ lin_pc' = "failed"
                    /\ lin_err' = "TypeError"
                    /\ UNCHANGED <<results, csv, best_acc, saved>>
               ELSE \E test_acc_1 \in Accs :
                    /\ results' = Append(results, [epoch |-> epoch + 1,
                                                   test_acc_1 |-> test_acc_1])
                    /\ csv' = Len(results) + 1
                    /\ best_acc' = IF test_acc_1 > best_acc THEN test_acc_1 ELSE best_acc
                    /\ saved' = IF test_acc_1 > best_acc THEN saved + 1 ELSE saved
                    /\ UNCHANGED <<lin_pc, lin_err>>
    /\ UNCHANGED <<args, net>>
    /\ UNCHANGED mocoVars

NextLinear ==
    \/ net_init
    \/ epoch_body

SpecLinear == InitLinear /\ [][NextLinear]_vars

(***************************************************************************)
(* Properties of the negative queue (SpecQueue).                           *)
(***************************************************************************)
\* the last n completed enqueues all had length b, the first of them
\* starting at a multiple of b
RunOf(b, n) ==
    /\ Len(hist) >= n
    /\ \A j \in (Len(hist) - n + 1)..Len(hist) : hist[j].size = b
    /\ hist[Len(hist) - n + 1].ptr % b = 0

\* the queue is exactly the batches of the last n enqueues, one block each
HoldsLast(b, n) ==
    /\ \A j \in (Len(hist) - n + 1)..Len(hist) : \A i \in 1..b :
          queue[hist[j].ptr + i - 1] = Embedding("k", Image(hist[j].id, 0, i))
    /\ {queue[c] : c \in 0..(K - 1)} =
          {Embedding("k", Image(hist[j].id, 0, i)) :
              j \in (Len(hist) - n + 1)..Len(hist), i \in 1..b}
    /\ \A c \in 0..(K - 1) : queue[c].enc = "k" /\ queue[c].img[1] > Len(hist) - n

\* C1: for every b dividing K, after K/b enqueues of distinct batches of
\* length b, started with the pointer at a multiple of b, the queue holds
\* exactly those K/b batches, each in one block of b columns, and nothing of
\* the initial content or of an older batch.
C1_FifoEviction ==
    \A b \in 1..K : (K % b = 0 /\ RunOf(b, K \div b)) => HoldsLast(b, K \div b)

\* a run of K/b batches of a length 1 < b < K that followed enqueues of
\* another length, so that older batches were evicted
C1_Witness ==
    \E b \in 2..(K - 1) :
        /\ K % b = 0
        /\ RunOf(b, K \div b)
        /\ Len(hist) > K \div b
        /\ hist[1].size # b
        /\ pc = "idle"

\* C2: in any sequence of calls whose lengths each divide K, every call
\* writes all its embeddings in one block inside the queue (ptr + len <= K,
\* no clipped or split write) and leaves the pointer at (ptr + len) mod K.
C2_NeverSplit ==
    /\ err # "RuntimeError"
    /\ \A j \in 1..Len(hist) :
          /\ hist[j].ptr + hist[j].size <= K
          /\ (hist[j].ptr + hist[j].size) % K =
                IF j < Len(hist) THEN hist[j + 1].ptr ELSE queue_ptr
    /\ (pc = "failed" => K % N # 0)

(***************************************************************************)
(* Properties of the momentum update (SpecMomentum).                       *)
(***************************************************************************)
\* the floats, described by their form rather than by rounding
FloatRange ==
    {v \in (-2 * MaxParam)..(2 * MaxParam) :
        \E e \in 0..MaxParam, mant \in 0..(2^Precision - 1) :
            Abs(v) = mant * (2^e)}

\* the floats nearest to the rational n/d
Nearest(n, d) ==
    {v \in FloatRange : \A w \in FloatRange : Abs(n - v * d) <= Abs(n - w * d)}

\* kn is k*mm + q*(1-mm) with each product and the sum rounded to nearest
RoundedBlend(k, q, mm, kn) ==
    \E om \in Nearest(Unit - mm, 1) :
    \E a \in Nearest(k * mm, Unit) :
    \E b \in Nearest(q * om, Unit) : kn \in Nearest(a + b, 1)

\* both products of the blend of k with itself are floats, and so is 1 - mm
ExactProducts(k, mm) ==
    /\ (Unit - mm) \in FloatRange
    /\ (k * mm) % Unit = 0 /\ (k * mm) \div Unit \in FloatRange
    /\ (k * (Unit - mm)) % Unit = 0 /\ (k * (Unit - mm)) \div Unit \in FloatRange

MomentumStep == pc = "idle" /\ pc' = "m_called"

\* C5 (as stated): one momentum update sets every key parameter to exactly
\* k*m + q*(1-m) of the values before the call, leaves the query parameters
\* unchanged, and leaves k unchanged when k = q.
C5_ExactBlend ==
    [][MomentumStep =>
        /\ param_q' = param_q
        /\ \A i \in ParamIdx :
              /\ param_k'[i] * Unit = param_k[i] * m + param_q[i] * (Unit - m)
              /\ (param_k[i] = param_q[i] => param_k'[i] = param_k[i])]_vars

\* C5 (amended): one momentum update sets every key parameter to
\* k*m + q*(1-m) of the values before the call as floating-point arithmetic
\* evaluates it (each product and the sum rounded to a nearest float), and
\* leaves the query parameters unchanged; when k = q the update leaves k
\* unchanged if the two products are exact, and otherwise may move it.
C5_RoundedBlend ==
    [][MomentumStep =>
        /\ param_q' = param_q
        /\ \A i \in ParamIdx :
              /\ RoundedBlend(param_k[i], param_q[i], m, param_k'[i])
              /\ (param_k[i] = param_q[i] /\ ExactProducts(param_k[i], m)
                    => param_k'[i] = param_k[i])]_vars

\* after an update of two different pairs: one equal before the call with
\* exact products, the other with the query at 0 and the key not
C5_Witness ==
    /\ pc = "m_called"
    /\ param_k[1] = param_q[1] /\ param_k[1] = Unit
    /\ param_k[2] # param_q[2] /\ param_k[2] # 0 /\ param_q[2] = 0
    /\ m = Unit - Unit \div 4

(***************************************************************************)
(* Properties of the training step (Spec).                                 *)
(***************************************************************************)
InStep == pc \in {"m_done", "l12_done", "l21_done"}

\* C3: a capacity the enqueue length 2N does not divide is rejected at
\* construction, so no phase of a training step (momentum update, loss
\* computation) ever runs under such a configuration.
C3_RejectedAtConstruction ==
    ~(InStep /\ N > 0 /\ K % (2 * N) # 0)

\* C4 (as stated): a step that returns leaves the pointer at
\* (old pointer + 2N) mod K, and the step's divisibility check succeeds
\* whenever N divides K.
C4_SucceedsWhenNDivides ==
    /\ (pc = "returned" =>
          queue_ptr = (hist[Len(hist)].ptr + 2 * N) % K)
    /\ (pc = "failed" /\ err = "AssertionError" => K % N # 0)

\* the block written by the enqueue of the step that just returned
LastPtr == hist[Len(hist)].ptr

\* C4 (amended): a step enqueues k1 then k2 (2N embeddings) in one enqueue
\* and leaves the pointer at (old pointer + 2N) mod K; it can return only
\* when K is divisible by 2N, the length enqueued, and it ends in an
\* AssertionError whenever K is not divisible by 2N and the encoders accept
\* the batch.
C4_EnqueuesBothKeyBatches ==
    /\ (pc = "returned" =>
          /\ K % (2 * N) = 0
          /\ hist[Len(hist)] = [id |-> step, size |-> 2 * N, ptr |-> LastPtr]
          /\ queue_ptr = (LastPtr + 2 * N) % K
          /\ \A i \in 1..N :
                /\ queue[LastPtr + i - 1] = Embedding("k", Image(step, 1, i))
                /\ queue[LastPtr + N + i - 1] = Embedding("k", Image(step, 2, i)))
    /\ (pc = "failed" /\ N > 0 /\ K % (2 * N) # 0 /\ EncoderAccepts(N)
          => err = "AssertionError")

\* a second step returned with N > 1 dividing K, away from column 0
C4_Witness ==
    /\ pc = "returned"
    /\ Len(hist) >= 2
    /\ N > 1
    /\ LastPtr # 0

\* C6: the key parameters equal the query parameters at construction, stay
\* marked non-trainable in every state, and change only in the momentum
\* update: the loss computations, the enqueue and the optimizer step leave
\* them as they are.
C6_KeyOnlyByMomentum ==
    /\ [](step = 0 => param_k = param_q)
    /\ [](\A i \in ParamIdx : ~requires_grad_k[i])
    /\ [][param_k' # param_k => pc = "idle" /\ pc' = "m_done"]_vars

\* after two optimizer steps the query parameters have moved and the key
\* parameters have not followed them
C6_Witness ==
    /\ pc = "idle"
    /\ step >= 2
    /\ \A i \in ParamIdx : param_k[i] # param_q[i]

\* the key and query images of the contrastive_loss call that ran last
LastKeyImages == IF pc = "l12_done" THEN Batch(step, 2, N) ELSE Batch(step, 1, N)

LastQueryImages == IF pc = "l12_done" THEN Batch(step, 1, N) ELSE Batch(step, 2, N)

LastLoss == IF pc = "l12_done" THEN loss_12 ELSE loss_21

\* C7: for every batch and every permutation drawn, idx_unshuffle is the
\* inverse of the shuffle: unshuffling the shuffled batch gives the batch in
\* its original order, so k[i] is the key-encoder output for im_k[i] and is
\* paired with q[i].
C7_UnshuffleInvertsShuffle ==
    pc \in {"l12_done", "l21_done"} =>
        /\ shuffle.x = [j \in 1..N |-> LastKeyImages[shuffle.idx_shuffle[j]]]
        /\ \A j \in 1..N : shuffle.idx_shuffle[shuffle.idx_unshuffle[j]] = j
        /\ batch_unshuffle_single_gpu(shuffle.x, shuffle.idx_unshuffle) = LastKeyImages
        /\ \A i \in 1..N :
              /\ LastLoss.k[i] = Embedding("k", LastKeyImages[i])
              /\ LastLoss.l_pos[i] = <<Embedding("q", LastQueryImages[i]),
                                       Embedding("k", LastKeyImages[i])>>

\* a batch of three shuffled by a permutation that is not its own inverse
C7_Witness ==
    /\ pc = "l21_done"
    /\ N = 3
    /\ shuffle.idx_shuffle = <<2, 3, 1>>

\* the embeddings produced in training step id
FromStep(e, id) == e.img[1] = id

\* C10: within a step the momentum update runs first and only once, the
\* queue is written once and only after both losses: both losses read the
\* same key parameters and the same queue contents, those left by the
\* previous step, and no key of the step is among its own negatives.
C10_StepOrder ==
    /\ [](pc = "l12_done" => loss_12.kparams = param_k /\ loss_12.l_neg = queue)
    /\ [](pc \in {"l21_done", "returned"} =>
            /\ loss_12.kparams = loss_21.kparams
            /\ loss_21.kparams = param_k
            /\ loss_12.l_neg = loss_21.l_neg
            /\ \A c \in 0..(K - 1) : ~FromStep(loss_12.l_neg[c], step))
    /\ [](pc = "l21_done" => loss_21.l_neg = queue /\ Len(hist) = step - 1)
    /\ [](pc = "returned" =>
            /\ Len(hist) = step
            /\ \A c \in 0..(K - 1) :
                  queue[c] # loss_21.l_neg[c] <=> FromStep(queue[c], step))
    /\ [][InStep => param_k' = param_k]_vars
    /\ [][queue' # queue => pc = "l21_done" /\ pc' = "returned"]_vars
    /\ [][pc = "idle" /\ pc' # "idle" =>
            pc' = "m_done" /\ param_k' = momentum_blend(param_q, param_k, m)]_vars

\* a third step returned after the query parameters moved, so the losses of
\* the step read key parameters that the step's momentum update changed
C10_Witness ==
    /\ pc = "returned"
    /\ step >= 2
    /\ loss_12.kparams # param_q
    /\ queue_ptr # 0

(***************************************************************************)
(* Properties of linear.py (SpecLinear).                                   *)
(***************************************************************************)
\* C8: the statistics table is written after every epoch: a run that has
\* finished e epochs has written a table of e rows, and the run is not
\* ended by an error of the epoch loop.
C8_TableWrittenEveryEpoch ==
    /\ (lin_pc \in {"constructed", "done"} => csv = epoch)
    /\ (lin_pc = "done" => csv = args.epochs)
    /\ lin_err # "TypeError"

\* C9: a tag outside {mocov1, mocov2, simclrv1, simclrv2} ends construction
\* in an AssertionError before any checkpoint is loaded; for a recognized
\* tag whose checkpoint file exists the head's input width is 512, 512,
\* 2048, 1024 respectively and the checkpoint is loaded non-strictly,
\* whatever names it holds.
C9_NetConstruction ==
    /\ (args.model_name \notin {"mocov1", "mocov2", "simclrv1", "simclrv2"} =>
          /\ lin_pc \in {"start", "failed"}
          /\ net.loaded = "no"
          /\ (lin_pc = "failed" => lin_err = "AssertionError"))
    /\ (args.model_name \in {"mocov1", "mocov2", "simclrv1", "simclrv2"}
          /\ args.ckpt # {"missing"} /\ lin_pc # "start" =>
          /\ lin_err \notin {"AssertionError", "RuntimeError", "FileNotFoundError"}
          /\ net.loaded = "non_strict"
          /\ net.fc_in = CASE args.model_name \in {"mocov1", "mocov2"} -> 512
                           [] args.model_name = "simclrv1" -> 2048
                           [] args.model_name = "simclrv2" -> 1024)

\* construction failed on an unknown tag although the checkpoint exists
C9_Witness ==
    /\ lin_pc = "failed"
    /\ lin_err = "AssertionError"
    /\ args.model_name = "resnet"
    /\ args.ckpt = {"f", "encoder_q.g"}
    /\ net.loaded = "no"

====
